---------------------------- MODULE Spec2Model ----------------------------
(***************************************************************************)
(* A model of fetch-contracts.py: the text normalizer (TextNormalizer),    *)
(* the row sanitizer and district resolver of NASADataFetcher, and the     *)
(* fetch/write loop fetch_and_save_data.                                   *)
(*                                                                         *)
(* A Python str is a sequence of characters; a character is a one-element  *)
(* TLA+ string, except the two non-ASCII characters the model carries,     *)
(* which are named by their code points:                                   *)
(*   "U+00DF"  LATIN SMALL LETTER SHARP S  (upper() is "SS", title "Ss")   *)
(*   "U+00B2"  SUPERSCRIPT TWO             (isdigit() True, int() raises)  *)
(***************************************************************************)
EXTENDS Integers, Sequences, FiniteSets, TLC

VARIABLES
    pc,                   \* control position of the modelled call
    st_code,              \* _determine_district / loop variable st_code
    place_of_performance, \* _determine_district argument
    district_str,         \* outcome of _determine_district
    line,                 \* one raw line of a response
    raw_data,             \* line.split("\t"), then sanitized in place
    csv_row,              \* the row handed to writer.writerow
    text,                 \* argument of normalize / _sentence_case
    result,               \* value returned by the first call
    result2,              \* value returned by the call on the result
    normalizer,           \* the TextNormalizer: its mapping and pattern
    current_year,         \* datetime.datetime.now().year
    responses,            \* what each request of the run will return
    bi,                   \* index of the (year, state) batch in progress
    lines,                \* response.text.splitlines() of the batch
    row_index,            \* enumerate(lines, start=1) position
    headers_written,      \* fetch_and_save_data local
    csvfile               \* rows written so far by the csv writer

vars == <<pc, st_code, place_of_performance, district_str, line, raw_data,
          csv_row, text, result, result2, normalizer, current_year, responses,
          bi, lines, row_index, headers_written, csvfile>>

districtVars == <<st_code, place_of_performance, district_str>>
lineVars == <<line, raw_data, csv_row>>
textVars == <<text, result, result2, normalizer, current_year>>
fetchVars == <<responses, bi, lines, row_index, headers_written, csvfile>>

----------------------------------------------------------------------------
(* Characters *)

LowerLetters == <<"a","b","c","d","e","f","g","h","i","j","k","l","m",
                  "n","o","p","q","r","s","t","u","v","w","x","y","z">>
UpperLetters == <<"A","B","C","D","E","F","G","H","I","J","K","L","M",
                  "N","O","P","Q","R","S","T","U","V","W","X","Y","Z">>
DigitChars == <<"0","1","2","3","4","5","6","7","8","9">>

SharpS == "U+00DF"
SuperTwo == "U+00B2"

Range(f) == {f[i] : i \in DOMAIN f}

AsciiLower == Range(LowerLetters)
AsciiUpper == Range(UpperLetters)
AsciiDigit == Range(DigitChars)

IndexOf(seq, c) == CHOOSE i \in DOMAIN seq : seq[i] = c

\* [A-Za-z0-9]
IsAsciiAlnum(c) == c \in AsciiLower \cup AsciiUpper \cup AsciiDigit

\* \w of a str pattern: str.isalnum() or "_"
IsWordChar(c) == IsAsciiAlnum(c) \/ c = "_" \/ c = SharpS \/ c = SuperTwo

\* str.isspace()
IsSpace(c) == c \in {" ", "\t", "\n", "\r"}

\* c.isdigit() of one character
IsDigitChar(c) == c \in AsciiDigit \/ c = SuperTwo

\* whether int() accepts the character as a decimal digit
IsDecimalChar(c) == c \in AsciiDigit

\* cased: c.islower() or c.isupper()
IsCased(c) == c \in AsciiLower \cup AsciiUpper \/ c = SharpS

\* c.lower(), c.upper(), c.title() of one character, each a str
LowerChar(c) == IF c \in AsciiUpper THEN <<LowerLetters[IndexOf(UpperLetters, c)]>>
                ELSE <<c>>
UpperChar(c) == IF c \in AsciiLower THEN <<UpperLetters[IndexOf(LowerLetters, c)]>>
                ELSE IF c = SharpS THEN <<"S", "S">>
                ELSE <<c>>
TitleChar(c) == IF c \in AsciiLower THEN <<UpperLetters[IndexOf(LowerLetters, c)]>>
                ELSE IF c = SharpS THEN <<"S", "s">>
                ELSE <<c>>

\* re.IGNORECASE comparison of a literal pattern character with a text one
MatchCI(p, t) == LowerChar(p) = LowerChar(t)

----------------------------------------------------------------------------
(* str methods *)

RECURSIVE Lower(_)
Lower(s) == IF s = <<>> THEN <<>> ELSE LowerChar(Head(s)) \o Lower(Tail(s))

RECURSIVE Upper(_)
Upper(s) == IF s = <<>> THEN <<>> ELSE UpperChar(Head(s)) \o Upper(Tail(s))

RECURSIVE LStrip(_, _)
LStrip(s, drop) == IF s /= <<>> /\ Head(s) \in drop THEN LStrip(Tail(s), drop) ELSE s

RECURSIVE RStrip(_, _)
RStrip(s, drop) == IF s /= <<>> /\ s[Len(s)] \in drop
                   THEN RStrip(SubSeq(s, 1, Len(s) - 1), drop) ELSE s

\* s.strip(chars)
StripChars(s, drop) == RStrip(LStrip(s, drop), drop)

\* s.strip()
Strip(s) == StripChars(s, {" ", "\t", "\n", "\r"})

\* s.strip('"')
StripQuotes(s) == StripChars(s, {"\""})

\* s.title(): a cased character is title-cased after an uncased one and
\* lower-cased after a cased one
RECURSIVE TitleFrom(_, _)
TitleFrom(s, prevCased) ==
    IF s = <<>> THEN <<>>
    ELSE LET c == Head(s)
         IN  (IF IsCased(c)
              THEN (IF prevCased THEN LowerChar(c) ELSE TitleChar(c))
              ELSE <<c>>) \o TitleFrom(Tail(s), IsCased(c))

Title(s) == TitleFrom(s, FALSE)

\* s.isdigit()
IsDigitStr(s) == s /= <<>> /\ \A i \in DOMAIN s : IsDigitChar(s[i])

\* whether int(s) returns for a string that passed isdigit()
IntParses(s) == \A i \in DOMAIN s : IsDecimalChar(s[i])

\* int(s) of a string of ASCII digits
RECURSIVE IntOf(_)
IntOf(s) == IF s = <<>> THEN 0
            ELSE 10 * IntOf(SubSeq(s, 1, Len(s) - 1))
                 + (IndexOf(DigitChars, s[Len(s)]) - 1)

\* s.split(sep) for a one-character sep: always at least one field
RECURSIVE SplitFrom(_, _, _)
SplitFrom(s, sep, cur) ==
    IF s = <<>> THEN <<cur>>
    ELSE IF Head(s) = sep THEN <<cur>> \o SplitFrom(Tail(s), sep, <<>>)
    ELSE SplitFrom(Tail(s), sep, Append(cur, Head(s)))

Split(s, sep) == SplitFrom(s, sep, <<>>)

\* s.splitlines(): breaks at "\n", "\r" and "\r\n"; no empty last line
RECURSIVE SplitLinesFrom(_, _)
SplitLinesFrom(s, cur) ==
    IF s = <<>> THEN (IF cur = <<>> THEN <<>> ELSE <<cur>>)
    ELSE IF Head(s) = "\r" /\ Len(s) > 1 /\ s[2] = "\n"
         THEN <<cur>> \o SplitLinesFrom(Tail(Tail(s)), <<>>)
    ELSE IF Head(s) \in {"\n", "\r"}
         THEN <<cur>> \o SplitLinesFrom(Tail(s), <<>>)
    ELSE SplitLinesFrom(Tail(s), Append(cur, Head(s)))

SplitLines(s) == SplitLinesFrom(s, <<>>)

\* needle in s
Contains(s, needle) ==
    \E i \in 0..(Len(s) - Len(needle)) :
        SubSeq(s, i + 1, i + Len(needle)) = needle

----------------------------------------------------------------------------
(* NASADataFetcher._determine_district *)

at_large_states == {<<"A","K">>, <<"W","Y">>, <<"M","T">>, <<"N","D">>,
                    <<"S","D">>, <<"V","T">>, <<"D","E">>}

Returned(v) == [raised |-> FALSE, value |-> v]
ValueError == [raised |-> TRUE, value |-> <<>>]

_determine_district(st, place) ==
    IF st \in at_large_states THEN Returned(st \o <<"-", "0", "0">>)
    ELSE IF Len(place) >= 4
    THEN LET district_number == SubSeq(place, Len(place) - 3, Len(place) - 2)
         IN  IF IsDigitStr(district_number)
             THEN (IF ~IntParses(district_number) THEN ValueError
                   ELSE IF IntOf(district_number) /= 0
                   THEN Returned(st \o <<"-">> \o district_number)
                   ELSE Returned(<<>>))
             ELSE Returned(<<>>)
    ELSE Returned(<<>>)

----------------------------------------------------------------------------
(* dict, kept in insertion order as a sequence of <<key, value>> pairs *)

DictHas(d, k) == \E i \in DOMAIN d : d[i][1] = k

\* d[k] = v: a present key keeps its place and takes the new value
DictSet(d, k, v) ==
    IF DictHas(d, k)
    THEN [i \in DOMAIN d |-> IF d[i][1] = k THEN <<k, v>> ELSE d[i]]
    ELSE Append(d, <<k, v>>)

\* d.get(k, default)
DictGet(d, k, default) ==
    IF DictHas(d, k) THEN d[CHOOSE i \in DOMAIN d : d[i][1] = k][2] ELSE default

\* list(d.keys())
DictKeys(d) == [i \in DOMAIN d |-> d[i][1]]

----------------------------------------------------------------------------
(* TextNormalizer._sentence_case *)

FirstFiscalYear == 2005

\* str(n) of a natural number
RECURSIVE Str(_)
Str(n) == IF n < 10 THEN <<DigitChars[n + 1]>>
          ELSE Str(n \div 10) \o <<DigitChars[(n % 10) + 1]>>

\* position i (0 .. Len(s)) of s is a \b word boundary
WordBoundary(s, i) ==
    (i > 0 /\ IsWordChar(s[i])) /= (i < Len(s) /\ IsWordChar(s[i + 1]))

\* the literal lit matches s case-insensitively at offset i
MatchesAt(s, i, lit) ==
    /\ i + Len(lit) <= Len(s)
    /\ \A j \in DOMAIN lit : MatchCI(lit[j], s[i + j])

\* re.sub(r'\b' + re.escape(wrong) + r'\b', correct, s, flags=re.IGNORECASE)
RECURSIVE WordSubFrom(_, _, _, _)
WordSubFrom(s, i, wrong, correct) ==
    IF i >= Len(s) THEN <<>>
    ELSE IF /\ WordBoundary(s, i)
            /\ MatchesAt(s, i, wrong)
            /\ WordBoundary(s, i + Len(wrong))
         THEN correct \o WordSubFrom(s, i + Len(wrong), wrong, correct)
         ELSE <<s[i + 1]>> \o WordSubFrom(s, i + 1, wrong, correct)

WordSub(s, wrong, correct) == WordSubFrom(s, 0, wrong, correct)

base_abbreviation_fixes ==
    << << <<"u",".","s",".">>, <<"U",".","S",".">> >>,
       << <<"i","i">>, <<"I","I">> >>,
       << <<"i","i","i">>, <<"I","I","I">> >> >>

\* the loop "for fy in range(2005, current_year + 1)": fy_str is taken from
\* current_year in every iteration
RECURSIVE AddFiscalYears(_, _, _)
AddFiscalYears(d, fy, year) ==
    IF fy > year THEN d
    ELSE LET full == Str(year)
             fy_str == SubSeq(full, 3, Len(full))
         IN  AddFiscalYears(DictSet(d, <<"f","y">> \o fy_str, <<"F","Y">> \o fy_str),
                            fy + 1, year)

abbreviation_fixes(year) == AddFiscalYears(base_abbreviation_fixes, FirstFiscalYear, year)

\* the loop "for wrong, correct in abbreviation_fixes.items()"
RECURSIVE ApplyFixes(_, _)
ApplyFixes(s, fixes) ==
    IF fixes = <<>> THEN s
    ELSE ApplyFixes(WordSub(s, Head(fixes)[1], Head(fixes)[2]), Tail(fixes))

_sentence_case(t, year) ==
    LET stripped == Strip(t)
    IN  IF stripped = <<>> THEN stripped
        ELSE LET text_lower == Lower(stripped)
                 sentence_cased == UpperChar(Head(text_lower)) \o Tail(text_lower)
             IN  ApplyFixes(sentence_cased, abbreviation_fixes(year))

----------------------------------------------------------------------------
(* TextNormalizer._load_data and TextNormalizer.normalize *)

\* the loop over the reader's rows; a row is <<Acronym, Definition>>
RECURSIVE LoadRows(_, _)
LoadRows(d, rows) ==
    IF rows = <<>> THEN d
    ELSE LET acronym == Strip(Head(rows)[1])
             definition == Strip(Head(rows)[2])
             d1 == IF acronym /= <<>>
                   THEN DictSet(d, Lower(acronym), Upper(acronym)) ELSE d
             d2 == IF definition /= <<>>
                   THEN DictSet(d1, Lower(definition), definition) ELSE d1
         IN  LoadRows(d2, Tail(rows))

\* stable insertion of k into a list sorted by descending length
RECURSIVE InsertByLen(_, _)
InsertByLen(sorted, k) ==
    IF sorted = <<>> THEN <<k>>
    ELSE IF Len(Head(sorted)) >= Len(k)
         THEN <<Head(sorted)>> \o InsertByLen(Tail(sorted), k)
         ELSE <<k>> \o sorted

\* sorted(keys, key=len, reverse=True)
RECURSIVE SortByLenDesc(_)
SortByLenDesc(keys) ==
    IF keys = <<>> THEN <<>>
    ELSE InsertByLen(SortByLenDesc(SubSeq(keys, 1, Len(keys) - 1)), keys[Len(keys)])

\* the keys in insertion order, the sort left out
sorted_keys_Unsorted(m) == DictKeys(m)

sorted_keys(m) == SortByLenDesc(DictKeys(m))

\* the normalizer after _load_data: pattern holds the alternatives of the
\* compiled pattern, in their order
_load_data(rows) ==
    LET m == LoadRows(<<>>, rows)
    IN  [mapping |-> m, compiled |-> TRUE, pattern |-> sorted_keys(m)]

\* a reference file: none configured, or its rows
NoFile == [given |-> FALSE, rows |-> <<>>]
File(rows) == [given |-> TRUE, rows |-> rows]

\* TextNormalizer.__init__(csv_filepath): pattern stays None without a file
TextNormalizer(csv) ==
    IF csv.given THEN _load_data(csv.rows)
    ELSE [mapping |-> <<>>, compiled |-> FALSE, pattern |-> <<>>]

\* (?<![A-Za-z0-9]) at offset i
LookBehindOk(s, i) == i = 0 \/ ~IsAsciiAlnum(s[i])

\* (?![A-Za-z0-9]) at offset i
LookAheadOk(s, i) == i >= Len(s) \/ ~IsAsciiAlnum(s[i + 1])

\* key matches at offset i as one alternative of the compiled pattern
KeyMatchesAt(s, i, key) ==
    /\ LookBehindOk(s, i)
    /\ MatchesAt(s, i, key)
    /\ LookAheadOk(s, i + Len(key))

\* the alternation k1|k2|...: the first alternative that matches wins; <<>>
\* (never a key) when none does
RECURSIVE FirstMatch(_, _, _)
FirstMatch(s, i, keys) ==
    IF keys = <<>> THEN <<>>
    ELSE IF KeyMatchesAt(s, i, Head(keys)) THEN Head(keys)
    ELSE FirstMatch(s, i, Tail(keys))

\* replacement(match) looking the matched text up as it stands
replacement_CaseSensitive(m, matched_text) == DictGet(m, matched_text, matched_text)

\* replacement(match)
replacement(m, matched_text) == DictGet(m, Lower(matched_text), matched_text)

\* self.pattern.sub(replacement, text): left to right, non-overlapping.  With
\* no key at all the pattern is "()" and every match is empty and replaced
\* by mapping.get("", "") = "", which copies the text.
RECURSIVE PatternSubFrom(_, _, _, _)
PatternSubFrom(s, i, keys, m) ==
    IF i >= Len(s) THEN <<>>
    ELSE LET k == FirstMatch(s, i, keys)
         IN  IF k /= <<>>
             THEN replacement(m, SubSeq(s, i + 1, i + Len(k)))
                  \o PatternSubFrom(s, i + Len(k), keys, m)
             ELSE <<s[i + 1]>> \o PatternSubFrom(s, i + 1, keys, m)

normalize(self, t, year) ==
    LET cased == _sentence_case(t, year)
    IN  IF ~self.compiled THEN cased
        ELSE PatternSubFrom(cased, 0, self.pattern, self.mapping)

----------------------------------------------------------------------------
(* NASADataFetcher._sanitize_row; list indices are 1-based here *)

indices_to_strip == {0, 3, 6, 7, 8, 9, 13, 14}

\* the exchange guarded by len(row) > 8
SwapAwardColumns_MoreThanEight(row) ==
    IF Len(row) > 8
    THEN [row EXCEPT ![7] = row[8], ![8] = row[7]]
    ELSE row

SwapAwardColumns(row) ==
    IF Len(row) > 7
    THEN [row EXCEPT ![7] = row[8], ![8] = row[7]]
    ELSE row

StripRowQuotes(row) ==
    [i \in DOMAIN row |-> IF (i - 1) \in indices_to_strip
                          THEN StripQuotes(row[i]) ELSE row[i]]

TitleContractor(row) ==
    IF Len(row) > 0 THEN [row EXCEPT ![1] = Title(row[1])] ELSE row

NormalizeDescription(row, self, year) ==
    IF Len(row) > 14
    THEN [row EXCEPT ![15] = normalize(self, row[15], year)]
    ELSE row

_sanitize_row(row, self, year) ==
    NormalizeDescription(
        TitleContractor(StripRowQuotes(SwapAwardColumns(row))), self, year)

----------------------------------------------------------------------------
(* Values of the variables a specification does not use *)

ThisYear == 2026

DistrictIdle ==
    /\ st_code = <<>>
    /\ place_of_performance = <<>>
    /\ district_str = Returned(<<>>)

LineIdle ==
    /\ line = <<>>
    /\ raw_data = <<>>
    /\ csv_row = <<>>

TextIdle ==
    /\ text = <<>>
    /\ result = <<>>
    /\ result2 = <<>>
    /\ normalizer = TextNormalizer(NoFile)
    /\ current_year = ThisYear

FetchIdle ==
    /\ responses = <<>>
    /\ bi = 0
    /\ lines = <<>>
    /\ row_index = 0
    /\ headers_written = FALSE
    /\ csvfile = <<>>

\* all strings over alphabet of length at most n
StringsUpTo(alphabet, n) == UNION {[1..k -> alphabet] : k \in 0..n}

\* "".join(parts)
RECURSIVE Concat(_)
Concat(parts) == IF parts = <<>> THEN <<>> ELSE Head(parts) \o Concat(Tail(parts))

\* sep.join(parts)
RECURSIVE Join(_, _)
Join(parts, sep) ==
    IF parts = <<>> THEN <<>>
    ELSE IF Len(parts) = 1 THEN parts[1]
    ELSE parts[1] \o sep \o Join(Tail(parts), sep)

WA == <<"W","A">>
MT == <<"M","T">>
DE == <<"D","E">>
CA == <<"C","A">>

----------------------------------------------------------------------------
(* SpecDistrict: one call of _determine_district on every bounded input *)

MaxPlaceLen == 5

PlaceChars == {"0", "7", "X", "\"", SuperTwo}

InitDistrict ==
    /\ pc = "call"
    /\ st_code \in {WA, MT, DE, CA}
    /\ place_of_performance \in StringsUpTo(PlaceChars, MaxPlaceLen)
    /\ district_str = Returned(<<>>)
    /\ LineIdle /\ TextIdle /\ FetchIdle

DetermineDistrict ==
    /\ pc = "call"
    /\ district_str' = _determine_district(st_code, place_of_performance)
    /\ pc' = IF district_str'.raised THEN "raised" ELSE "returned"
    /\ UNCHANGED <<st_code, place_of_performance, lineVars, textVars, fetchVars>>

NextDistrict == DetermineDistrict

SpecDistrict == InitDistrict /\ [][NextDistrict]_vars

----------------------------------------------------------------------------
(* SpecSentence: one call of _sentence_case *)

MaxSentenceTokens == 3

SentenceTokens ==
    { <<"u",".","s",".">>, <<"U",".","S",".">>, <<" ">>, <<"a">>, <<"A">>,
      <<"i","i">>, <<"f","y","0","5">>, <<"F","y","2","5">>,
      <<"f","Y","2","6">>, <<".">>, <<SharpS>> }

SentenceTexts ==
    {Concat(ts) : ts \in StringsUpTo(SentenceTokens, MaxSentenceTokens)}

CurrentYears == {2004, 2005, 2025, 2026}

InitSentence ==
    /\ pc = "call"
    /\ text \in SentenceTexts
    /\ current_year \in CurrentYears
    /\ result = <<>>
    /\ result2 = <<>>
    /\ normalizer = TextNormalizer(NoFile)
    /\ DistrictIdle /\ LineIdle /\ FetchIdle

SentenceCase ==
    /\ pc = "call"
    /\ result' = _sentence_case(text, current_year)
    /\ pc' = "returned"
    /\ UNCHANGED <<text, result2, normalizer, current_year,
                   districtVars, lineVars, fetchVars>>

NextSentence == SentenceCase

SpecSentence == InitSentence /\ [][NextSentence]_vars

----------------------------------------------------------------------------
(* SpecNormalize: normalize(text), then normalize of its result *)

MaxRows == 1
MaxTextTokens == 3

\* rows of the reference file: <<Acronym, Definition>>
ReferenceRows ==
    { << <<"a">>, <<"a"," ","b">> >>,
      << <<"b"," ","c">>, <<"a"," ","b">> >>,
      << <<"b">>, <<"a"," ","b">> >>,
      << <<" ","c"," ">>, <<>> >> }

ReferenceFiles ==
    {NoFile} \cup {File(rows) : rows \in StringsUpTo(ReferenceRows, MaxRows)}

TextTokens == { <<"a">>, <<" ","B">>, <<" ","c">>, <<"b">>, <<".">>, <<SharpS>> }

NormalizeTexts == {Concat(ts) : ts \in StringsUpTo(TextTokens, MaxTextTokens)}

InitNormalize ==
    /\ pc = "call"
    /\ text \in NormalizeTexts
    /\ normalizer \in {TextNormalizer(f) : f \in ReferenceFiles}
    /\ current_year = ThisYear
    /\ result = <<>>
    /\ result2 = <<>>
    /\ DistrictIdle /\ LineIdle /\ FetchIdle

Normalize ==
    /\ pc = "call"
    /\ result' = normalize(normalizer, text, current_year)
    /\ pc' = "once"
    /\ UNCHANGED <<text, result2, normalizer, current_year,
                   districtVars, lineVars, fetchVars>>

NormalizeAgain ==
    /\ pc = "once"
    /\ result2' = normalize(normalizer, result, current_year)
    /\ pc' = "twice"
    /\ UNCHANGED <<text, result, normalizer, current_year,
                   districtVars, lineVars, fetchVars>>

NextNormalize == Normalize \/ NormalizeAgain

SpecNormalize == InitNormalize /\ [][NextNormalize]_vars

----------------------------------------------------------------------------
(* SpecLine: the body of the data-line branch of fetch_and_save_data, on one
   raw line: split, resolve the district, sanitize, emit *)

MaxFields == 16

\* column i (0-based) of a generated line: two letters, quoted or not
Column(i, quoted) ==
    LET w == <<LowerLetters[(i % 26) + 1], "x">>
    IN  IF quoted THEN <<"\"">> \o w \o <<"\"">> ELSE w

PlaceChoices ==
    { <<"x","0","7","y","z">>, <<"\"","0","7","x","\"">>, <<"a","b">>, <<>>,
      <<"x","0","0","y","z">>, <<"x",SuperTwo,"7","y","z">> }

DescriptionChoices ==
    { <<"\"","T","H","E"," ","a"," ","B",".","\"">>, <<"u",".","s","."," ","x">> }

LineFields(n, quoted, place, desc) ==
    [i \in 1..n |-> IF i = 4 THEN place
                    ELSE IF i = 15 THEN desc
                    ELSE Column(i - 1, quoted)]

LineChoices ==
    { Join(LineFields(n, q, place, desc), <<"\t">>) :
        n \in 0..MaxFields, q \in BOOLEAN,
        place \in PlaceChoices, desc \in DescriptionChoices }

LineNormalizer == TextNormalizer(File(<< << <<"a">>, <<"a"," ","b">> >> >>))

InitLine ==
    /\ pc = "split"
    /\ st_code \in {WA, MT}
    /\ line \in LineChoices
    /\ raw_data = <<>>
    /\ csv_row = <<>>
    /\ district_str = Returned(<<>>)
    /\ place_of_performance = <<>>
    /\ normalizer \in {TextNormalizer(NoFile), LineNormalizer}
    /\ current_year = ThisYear
    /\ text = <<>> /\ result = <<>> /\ result2 = <<>>
    /\ FetchIdle

\* raw_data = line.split("\t")
SplitLine ==
    /\ pc = "split"
    /\ raw_data' = Split(line, "\t")
    /\ pc' = "district"
    /\ UNCHANGED <<line, csv_row, districtVars, textVars, fetchVars>>

\* district_str = "" or self._determine_district(st_code, raw_data[3])
district_of(st, raw) ==
    IF Len(raw) > 3 THEN _determine_district(st, raw[4]) ELSE Returned(<<>>)

ResolveDistrict ==
    /\ pc = "district"
    /\ district_str' = district_of(st_code, raw_data)
    /\ place_of_performance' = IF Len(raw_data) > 3 THEN raw_data[4] ELSE <<>>
    /\ pc' = IF district_str'.raised THEN "raised" ELSE "sanitize"
    /\ UNCHANGED <<st_code, lineVars, textVars, fetchVars>>

\* self._sanitize_row(raw_data)
SanitizeRow ==
    /\ pc = "sanitize"
    /\ raw_data' = _sanitize_row(raw_data, normalizer, current_year)
    /\ pc' = "emit"
    /\ UNCHANGED <<line, csv_row, districtVars, textVars, fetchVars>>

\* csv_row = [st_code, district_str] + raw_data
csv_row_of(st, district, raw) == <<st, district>> \o raw

\* writer.writerow(csv_row)
EmitRow ==
    /\ pc = "emit"
    /\ csv_row' = csv_row_of(st_code, district_str.value, raw_data)
    /\ csvfile' = Append(csvfile, csv_row')
    /\ pc' = "done"
    /\ UNCHANGED <<line, raw_data, districtVars, textVars,
                   responses, bi, lines, row_index, headers_written>>

NextLine == SplitLine \/ ResolveDistrict \/ SanitizeRow \/ EmitRow

SpecLine == InitLine /\ [][NextLine]_vars

----------------------------------------------------------------------------
(* SpecFetch: fetch_and_save_data over the (fiscal year, state) batches *)

fiscal_years == <<2025>>
states == <<WA, MT, CA>>

\* the batches in the order of the nested loops
Batches ==
    [b \in 1..(Len(fiscal_years) * Len(states)) |->
        << fiscal_years[((b - 1) \div Len(states)) + 1],
           states[((b - 1) % Len(states)) + 1] >>]

InvalidEntryText == <<"I","n","v","a","l","i","d"," ","E","n","t","r","y">>

HeaderLinePosition == 7

MaxDataLines == 1

Preamble == << <<"p">>, <<>>, <<>>, <<>>, <<>>, <<"q">> >>

HeaderChoices == { <<"N","\t","P">>, <<"N","\t","Q","\t","R">> }

DataLineChoices ==
    { Join(<< <<"a","b">>, <<"b">>, <<"c">>, <<"\"","0","7","x","\"">>,
              <<"e">>, <<"f">>, <<"g">>, <<"\"","h","\"">> >>, <<"\t">>),
      <<"\"","q","\"","\t","r">>,
      Join(<< <<"a">>, <<"b">>, <<"c">>, <<SuperTwo,"7","x","x">> >>, <<"\t">>) }

FailedResponse == [ok |-> FALSE, text |-> <<>>]
Body(txt) == [ok |-> TRUE, text |-> txt]

ResponseChoices ==
    {FailedResponse}
    \cup {Body(Join(Preamble \o <<InvalidEntryText, h>>, <<"\n">>)) : h \in HeaderChoices}
    \cup {Body(Join(<< <<"a">>, <<"b">>, <<"c">> >>, <<"\n">>))}
    \cup {Body(Join(Preamble \o <<h>> \o ds, <<"\n">>)) :
            h \in HeaderChoices, ds \in StringsUpTo(DataLineChoices, MaxDataLines)}

InitFetch ==
    /\ pc = "request"
    /\ bi = 1
    /\ responses = <<>>
    /\ lines = <<>>
    /\ row_index = 0
    /\ headers_written = FALSE
    /\ csvfile = <<>>
    /\ normalizer = LineNormalizer
    /\ current_year = ThisYear
    /\ text = <<>> /\ result = <<>> /\ result2 = <<>>
    /\ DistrictIdle /\ LineIdle

\* requests.post / raise_for_status raise RequestException: continue
RequestFailed ==
    /\ pc = "request" /\ bi <= Len(Batches)
    /\ \E resp \in ResponseChoices :
           /\ ~resp.ok
           /\ responses' = Append(responses, resp)
    /\ st_code' = Batches[bi][2]
    /\ bi' = bi + 1
    /\ UNCHANGED <<pc, place_of_performance, district_str, lineVars, textVars,
                   lines, row_index, headers_written, csvfile>>

\* "Invalid Entry" in response.text: continue
InvalidEntry ==
    /\ pc = "request" /\ bi <= Len(Batches)
    /\ \E resp \in ResponseChoices :
           /\ resp.ok
           /\ Contains(resp.text, InvalidEntryText)
           /\ responses' = Append(responses, resp)
    /\ st_code' = Batches[bi][2]
    /\ bi' = bi + 1
    /\ UNCHANGED <<pc, place_of_performance, district_str, lineVars, textVars,
                   lines, row_index, headers_written, csvfile>>

\* len(lines) < 7: continue
UnexpectedFormat ==
    /\ pc = "request" /\ bi <= Len(Batches)
    /\ \E resp \in ResponseChoices :
           /\ resp.ok
           /\ ~Contains(resp.text, InvalidEntryText)
           /\ Len(SplitLines(resp.text)) < HeaderLinePosition
           /\ responses' = Append(responses, resp)
    /\ st_code' = Batches[bi][2]
    /\ bi' = bi + 1
    /\ UNCHANGED <<pc, place_of_performance, district_str, lineVars, textVars,
                   lines, row_index, headers_written, csvfile>>

\* the response is taken: enter "for row_index, line in enumerate(lines, 1)"
BeginLines ==
    /\ pc = "request" /\ bi <= Len(Batches)
    /\ \E resp \in ResponseChoices :
           /\ resp.ok
           /\ ~Contains(resp.text, InvalidEntryText)
           /\ Len(SplitLines(resp.text)) >= HeaderLinePosition
           /\ responses' = Append(responses, resp)
           /\ lines' = SplitLines(resp.text)
    /\ st_code' = Batches[bi][2]
    /\ row_index' = 1
    /\ pc' = "lines"
    /\ UNCHANGED <<bi, place_of_performance, district_str, lineVars, textVars,
                   headers_written, csvfile>>

\* a line before the header: neither branch applies
PreambleLine ==
    /\ pc = "lines" /\ row_index <= Len(lines)
    /\ row_index < HeaderLinePosition
    /\ row_index' = row_index + 1
    /\ UNCHANGED <<pc, districtVars, lineVars, textVars,
                   responses, bi, lines, headers_written, csvfile>>

new_header(header_line) ==
    << <<"S","t","a","t","e">>, <<"D","i","s","t","r","i","c","t">> >>
        \o Split(header_line, "\t")

\* the header written for every batch, headers_written not consulted
WriteHeader_EveryBatch ==
    /\ pc = "lines" /\ row_index <= Len(lines)
    /\ row_index = HeaderLinePosition
    /\ csvfile' = Append(csvfile, new_header(lines[row_index]))
    /\ headers_written' = TRUE
    /\ row_index' = row_index + 1
    /\ UNCHANGED <<pc, districtVars, lineVars, textVars, responses, bi, lines>>

\* row_index == 7 and not headers_written
WriteHeader ==
    /\ pc = "lines" /\ row_index <= Len(lines)
    /\ row_index = HeaderLinePosition
    /\ ~headers_written
    /\ csvfile' = Append(csvfile, new_header(lines[row_index]))
    /\ headers_written' = TRUE
    /\ row_index' = row_index + 1
    /\ UNCHANGED <<pc, districtVars, lineVars, textVars, responses, bi, lines>>

\* row_index == 7 and headers_written
SkipHeader ==
    /\ pc = "lines" /\ row_index <= Len(lines)
    /\ row_index = HeaderLinePosition
    /\ headers_written
    /\ row_index' = row_index + 1
    /\ UNCHANGED <<pc, districtVars, lineVars, textVars,
                   responses, bi, lines, headers_written, csvfile>>

\* row_index > 7: one data row is written
DataLine ==
    /\ pc = "lines" /\ row_index <= Len(lines)
    /\ row_index > HeaderLinePosition
    /\ line' = lines[row_index]
    /\ LET raw == Split(lines[row_index], "\t")
           d == district_of(st_code, raw)
       IN  /\ ~d.raised
           /\ district_str' = d
           /\ raw_data' = _sanitize_row(raw, normalizer, current_year)
           /\ csv_row' = csv_row_of(st_code, d.value, raw_data')
    /\ csvfile' = Append(csvfile, csv_row')
    /\ row_index' = row_index + 1
    /\ UNCHANGED <<pc, st_code, place_of_performance, textVars,
                   responses, bi, lines, headers_written>>

\* row_index > 7 and _determine_district raises ValueError, which no handler
\* of fetch_and_save_data catches: the run ends
DataLineRaises ==
    /\ pc = "lines" /\ row_index <= Len(lines)
    /\ row_index > HeaderLinePosition
    /\ line' = lines[row_index]
    /\ raw_data' = Split(lines[row_index], "\t")
    /\ district_str' = district_of(st_code, raw_data')
    /\ district_str'.raised
    /\ pc' = "crashed"
    /\ UNCHANGED <<st_code, place_of_performance, csv_row, textVars, fetchVars>>

\* the lines are exhausted: next batch
EndBatch ==
    /\ pc = "lines" /\ row_index > Len(lines)
    /\ bi' = bi + 1
    /\ pc' = "request"
    /\ UNCHANGED <<districtVars, lineVars, textVars,
                   responses, lines, row_index, headers_written, csvfile>>

\* both loops are exhausted: the file is closed
EndRun ==
    /\ pc = "request" /\ bi > Len(Batches)
    /\ pc' = "done"
    /\ UNCHANGED <<districtVars, lineVars, textVars, fetchVars>>

NextFetch ==
    \/ RequestFailed \/ InvalidEntry \/ UnexpectedFormat \/ BeginLines
    \/ PreambleLine \/ WriteHeader \/ SkipHeader
    \/ DataLine \/ DataLineRaises \/ EndBatch \/ EndRun

SpecFetch == InitFetch /\ [][NextFetch]_vars

----------------------------------------------------------------------------
(* Properties of _determine_district *)

\* the numeric value of a digit character, SUPERSCRIPT TWO included
DigitValue(c) == IF c = SuperTwo THEN 2 ELSE IndexOf(DigitChars, c) - 1

AtLargeCodes == {<<"A","K">>, <<"W","Y">>, <<"M","T">>, <<"N","D">>,
                 <<"S","D">>, <<"V","T">>, <<"D","E">>}

\* the three-branch rule of the district resolver
ThreeBranchRule(st, place) ==
    LET n == Len(place)
    IN  IF st \in AtLargeCodes THEN st \o <<"-","0","0">>
        ELSE IF /\ n >= 4
                /\ IsDigitChar(place[n - 3]) /\ IsDigitChar(place[n - 2])
                /\ 10 * DigitValue(place[n - 3]) + DigitValue(place[n - 2]) /= 0
             THEN st \o <<"-", place[n - 3], place[n - 2]>>
             ELSE <<>>

\* C1: for every state code and place of performance the call returns the
\* value of the three-branch rule: "<st>-00" for an at-large state, "<st>-dd"
\* when the two characters before the last two are digits of non-zero value,
\* and the empty string otherwise.
C1_ThreeBranchRule ==
    pc \in {"returned", "raised"} =>
        /\ ~district_str.raised
        /\ district_str.value = ThreeBranchRule(st_code, place_of_performance)

\* the rule on the calls that return (what remains of C1 where int() accepts
\* the slice)
C1_RuleWhereReturned ==
    pc = "returned" =>
        district_str.value = ThreeBranchRule(st_code, place_of_performance)

----------------------------------------------------------------------------
(* Properties of _sentence_case *)

\* trimmed, lower-cased, first character upper-cased
Capitalized(t) ==
    LET low == Lower(Strip(t))
    IN  IF low = <<>> THEN <<>> ELSE UpperChar(Head(low)) \o Tail(low)

SameIgnoringCase(a, b) == Len(a) = Len(b) /\ \A j \in DOMAIN a : MatchCI(a[j], b[j])

\* token occurs in s at offset p with no word character on either side
WholeWordAt(s, p, token) ==
    /\ p + Len(token) <= Len(s)
    /\ SameIgnoringCase(SubSeq(s, p + 1, p + Len(token)), token)
    /\ (p = 0 \/ ~IsWordChar(s[p]))
    /\ (p + Len(token) = Len(s) \/ ~IsWordChar(s[p + Len(token) + 1]))

\* every whole-word occurrence of token in the capitalized text reads
\* canonical in the result
RewrittenEverywhere(token, canonical) ==
    LET base == Capitalized(text)
    IN  \A p \in 0..Len(base) :
            WholeWordAt(base, p, token) =>
                /\ Len(result) >= p + Len(token)
                /\ SubSeq(result, p + 1, p + Len(token)) = canonical

\* C9: the result is the trimmed, lower-cased, capitalized text in which every
\* whole-word occurrence of "u.s." (before a space, punctuation or the end of
\* the text too) reads "U.S."; so "u.s. AGENCY" gives "U.S. agency".
C9_UsAbbreviationFixed ==
    pc = "returned" =>
        /\ SameIgnoringCase(result, Capitalized(text))
        /\ RewrittenEverywhere(<<"u",".","s",".">>, <<"U",".","S",".">>)

\* the two digits of fiscal year y
YY(y) == SubSeq(Str(y), 3, 4)

\* C10: for every fiscal year Y from 2005 through the current year every
\* whole-word occurrence of "fyYY" reads "FYYY" in the result.
C10_EveryFiscalYearFixed ==
    pc = "returned" =>
        \A y \in FirstFiscalYear..current_year :
            RewrittenEverywhere(<<"f","y">> \o YY(y), <<"F","Y">> \o YY(y))

\* what the code does instead: the token of the current year alone
C10_CurrentYearFixed ==
    (pc = "returned" /\ current_year >= FirstFiscalYear) =>
        RewrittenEverywhere(<<"f","y">> \o YY(current_year),
                            <<"F","Y">> \o YY(current_year))

----------------------------------------------------------------------------
(* Properties of normalize *)

IsPlainAlnum(c) == c \in AsciiLower \cup AsciiUpper \cup AsciiDigit

\* key occurs in s at offset p, in any letter case, as a standalone word or
\* phrase: the character before it and the character after it are each
\* absent or no ASCII letter or digit
StandaloneAt(s, p, key) ==
    /\ p + Len(key) <= Len(s)
    /\ SameIgnoringCase(SubSeq(s, p + 1, p + Len(key)), key)
    /\ (p = 0 \/ ~IsPlainAlnum(s[p]))
    /\ (p + Len(key) = Len(s) \/ ~IsPlainAlnum(s[p + Len(key) + 1]))

TableKeys == {normalizer.mapping[i][1] : i \in DOMAIN normalizer.mapping}
Canonical(key) == DictGet(normalizer.mapping, key, key)

SentenceCased == _sentence_case(text, current_year)

\* every canonical form is as long as its key, so offsets in the
\* sentence-cased text are offsets in the result
ReadsAt(out, p, form) ==
    Len(out) >= p + Len(form) /\ SubSeq(out, p + 1, p + Len(form)) = form

\* C6 as stated, for text without the sharp s (whose upper-casing "SS" moves
\* every later offset): every standalone occurrence of a key k in the text
\* reads its canonical form c in the output, and text with no occurrence of
\* any key is left as sentence-casing produced it.
C6_EveryOccurrenceReplaced ==
    (pc = "once" /\ normalizer.compiled /\ \A i \in DOMAIN text : text[i] /= SharpS) =>
        LET t == Strip(text)
        IN  /\ \A k \in TableKeys : \A p \in 0..Len(t) :
                   StandaloneAt(t, p, k) => ReadsAt(result, p, Canonical(k))
            /\ (\A k \in TableKeys : \A p \in 0..Len(t) : ~StandaloneAt(t, p, k))
                   => result = SentenceCased

\* an occurrence of key k at offset p of s that the left-to-right scan is
\* sure to pick: no occurrence of a key that starts to its left reaches into
\* it, and no other key at least as long occurs at p
Unshadowed(s, p, k) ==
    /\ StandaloneAt(s, p, k)
    /\ \A k2 \in TableKeys : \A q \in 0..Len(s) :
           (q < p /\ StandaloneAt(s, q, k2)) => q + Len(k2) <= p
    /\ \A k2 \in TableKeys :
           (k2 /= k /\ StandaloneAt(s, p, k2)) => Len(k2) < Len(k)

\* C6 amended: every standalone occurrence of a key k in the sentence-cased
\* text reads its canonical form c in the output, unless an occurrence of a
\* key that starts to its left overlaps it or another key at least as long
\* occurs at the same offset; text with no occurrence of any key is left as
\* sentence-casing produced it.
C6_UnshadowedOccurrenceReplaced ==
    (pc = "once" /\ normalizer.compiled) =>
        LET t == SentenceCased
        IN  /\ \A k \in TableKeys : \A p \in 0..Len(t) :
                   Unshadowed(t, p, k) => ReadsAt(result, p, Canonical(k))
            /\ (\A k \in TableKeys : \A p \in 0..Len(t) : ~StandaloneAt(t, p, k))
                   => result = t

\* a key occurrence past the start of the text, in another letter case than
\* its canonical form, has been rewritten
C6_Witness ==
    /\ pc = "once" /\ normalizer.compiled
    /\ \E k \in TableKeys : \E p \in 1..Len(SentenceCased) :
           /\ Unshadowed(SentenceCased, p, k)
           /\ ~ReadsAt(SentenceCased, p, Canonical(k))
           /\ ReadsAt(result, p, Canonical(k))

\* leftmost-longest rewriting: at each offset the longest key that occurs
\* there standalone is replaced by its canonical form
RECURSIVE LongestFirstFrom(_, _)
LongestFirstFrom(s, i) ==
    IF i >= Len(s) THEN <<>>
    ELSE LET here == {k \in TableKeys : StandaloneAt(s, i, k)}
         IN  IF here = {} THEN <<s[i + 1]>> \o LongestFirstFrom(s, i + 1)
             ELSE LET k == CHOOSE k \in here : \A k2 \in here : Len(k2) <= Len(k)
                  IN  Canonical(k) \o LongestFirstFrom(s, i + Len(k))

\* C7: wherever the scan replaces, it applies the canonical form of the
\* longest key that occurs standalone at that offset: the output is the
\* leftmost-longest rewriting of the sentence-cased text.
C7_LongestKeyWins ==
    (pc = "once" /\ normalizer.compiled) =>
        result = LongestFirstFrom(SentenceCased, 0)

\* two keys with distinct canonical forms occur at the start of the text and
\* the longer one's form was applied; and "a b" after a word was rewritten
\* whole although "b" is a key too
C7_Witness ==
    /\ pc = "once" /\ normalizer.compiled
    /\ \E k1 \in TableKeys : \E k2 \in TableKeys :
           /\ Len(k1) < Len(k2)
           /\ Canonical(k1) /= SubSeq(Canonical(k2), 1, Len(k1))
           /\ StandaloneAt(SentenceCased, 0, k1)
           /\ StandaloneAt(SentenceCased, 0, k2)
           /\ ReadsAt(result, 0, Canonical(k2))

\* C8: normalize(normalize(t)) = normalize(t), with or without a table.
C8_Idempotent ==
    pc = "twice" => result2 = result

\* idempotence on text that holds no sharp s
C8_IdempotentWithoutSharpS ==
    (pc = "twice" /\ \A i \in DOMAIN text : text[i] /= SharpS) => result2 = result

----------------------------------------------------------------------------
(* Properties of one data line (SpecLine) *)

\* C2: whatever the raw line holds, no step of its processing raises (an
\* unparseable place of performance gives the district "") and the line
\* ends as exactly one emitted row.
C2_LineNeverFails ==
    /\ pc /= "raised"
    /\ pc = "done" => Len(csvfile) = 1

\* the fields of the raw line, before _sanitize_row
OriginalFields == Split(line, "\t")

StripIndices == {0, 3, 6, 7, 8, 9, 13, 14}

\* what the steps other than the exchange make of original field i (1-based)
\* when it ends at position j of the row
StepsAt(j, field) ==
    LET stripped == IF (j - 1) \in StripIndices THEN StripQuotes(field) ELSE field
    IN  IF j = 1 THEN Title(stripped)
        ELSE IF j = 15 THEN normalize(normalizer, stripped, current_year)
        ELSE stripped

\* C5: a row of more than 7 fields has fields 6 and 7 exchanged (each with
\* its surrounding double quotes removed); a row of 7 or fewer fields has
\* nothing exchanged; the row keeps its length, and quote stripping, the
\* title-casing of field 0 and the normalizing of field 14 touch only the
\* positions the row has.
C5_SwapExactlyWhenMoreThanSeven ==
    pc \in {"emit", "done"} =>
        LET orig == OriginalFields
        IN  /\ Len(raw_data) = Len(orig)
            /\ Len(orig) > 7 =>
                   /\ raw_data[7] = StripQuotes(orig[8])
                   /\ raw_data[8] = StripQuotes(orig[7])
            /\ \A j \in DOMAIN orig :
                   (Len(orig) <= 7 \/ j \notin {7, 8}) =>
                       raw_data[j] = StepsAt(j, orig[j])

\* a sanitized row of exactly 8 fields whose quoted fields 6 and 7 changed
\* places
C5_Witness ==
    /\ pc = "done"
    /\ Len(OriginalFields) = 8
    /\ OriginalFields[7] /= OriginalFields[8]
    /\ Head(OriginalFields[8]) = "\""
    /\ raw_data[7] = StripQuotes(OriginalFields[8])
    /\ raw_data[8] = StripQuotes(OriginalFields[7])

----------------------------------------------------------------------------
(* Properties of fetch_and_save_data (SpecFetch) *)

\* a response the loop takes lines from
Usable(resp) ==
    /\ resp.ok
    /\ ~Contains(resp.text, InvalidEntryText)
    /\ Len(SplitLines(resp.text)) >= 7

LinesOf(resp) == SplitLines(resp.text)

\* the lines after line 7
DataLinesOf(resp) == SubSeq(LinesOf(resp), 8, Len(LinesOf(resp)))

UsableSoFar == {b \in DOMAIN responses : Usable(responses[b])}

Least(S) == CHOOSE b \in S : \A b2 \in S : b <= b2

StateColumn == <<"S","t","a","t","e">>
DistrictColumn == <<"D","i","s","t","r","i","c","t">>

\* the header due when the batches in usable are the usable ones
HeaderFrom(usable) ==
    <<StateColumn, DistrictColumn>>
        \o Split(LinesOf(responses[Least(usable)])[7], "\t")

ExpectedHeader == HeaderFrom(UsableSoFar)

\* the row the claim gives data line ln of a batch of state st
ExpectedRow(st, ln) ==
    LET raw == Split(ln, "\t")
        d == IF Len(raw) > 3 THEN _determine_district(st, raw[4]).value ELSE <<>>
    IN  <<st, d>> \o _sanitize_row(raw, normalizer, current_year)

ExpectedRows(st, lns) == [k \in DOMAIN lns |-> ExpectedRow(st, lns[k])]

\* the rows of the batches 1..n: nothing for one that is skipped
RECURSIVE ExpectedDataRows(_)
ExpectedDataRows(n) ==
    IF n = 0 THEN <<>>
    ELSE ExpectedDataRows(n - 1)
         \o (IF Usable(responses[n])
             THEN ExpectedRows(Batches[n][2], DataLinesOf(responses[n]))
             ELSE <<>>)

ExpectedFile ==
    IF UsableSoFar = {} THEN <<>>
    ELSE <<ExpectedHeader>> \o ExpectedDataRows(Len(responses))

IsPrefix(a, b) == Len(a) <= Len(b) /\ SubSeq(b, 1, Len(a)) = a

\* C3: the k-th data line of a batch gives the k-th row written for it, the
\* row is [stateCode, districtCode] + the sanitized fields with the district
\* taken from field 3 before sanitization, two fields longer than the line,
\* and no row is reordered, dropped or duplicated: the file grows along the
\* expected file and holds all of it whenever no batch is in progress.
C3_RowsFollowLines ==
    /\ IsPrefix(csvfile, ExpectedFile)
    /\ pc /= "lines" => csvfile = ExpectedFile
    /\ \A i \in 2..Len(csvfile) : \E b \in UsableSoFar :
           \E k \in DOMAIN DataLinesOf(responses[b]) :
               Len(csvfile[i]) = Len(Split(DataLinesOf(responses[b])[k], "\t")) + 2

\* what remains of C3 on the runs in which no call raises
C3_RowsFollowLinesUnlessRaised ==
    /\ IsPrefix(csvfile, ExpectedFile)
    /\ pc \in {"request", "done"} => csvfile = ExpectedFile

\* the number of rows due when the batches in usable are the usable ones:
\* one header once a batch is usable, one row per data line of a usable
\* batch, nothing for a skipped one
RECURSIVE DataLineCount(_)
DataLineCount(usable) ==
    IF usable = {} THEN 0
    ELSE LET b == Least(usable)
         IN  (Len(LinesOf(responses[b])) - 7) + DataLineCount(usable \ {b})

ExpectedRowCount(usable) ==
    IF usable = {} THEN 0 ELSE 1 + DataLineCount(usable)

\* C4: the file holds at most one header row, it is the first row and is
\* ["State", "District"] + the fields of line 7 of the first usable response;
\* a skipped batch writes nothing, and every batch is requested in a run that
\* ends normally.
C4_OneHeaderSkipsContinue ==
    LET usable == UsableSoFar
    IN  /\ csvfile /= <<>> =>
               /\ usable /= {}
               /\ csvfile[1] = HeaderFrom(usable)
        /\ \A i \in 2..Len(csvfile) : csvfile[i][1] /= StateColumn
        /\ headers_written = (csvfile /= <<>>)
        /\ pc = "request" =>
               /\ Len(responses) = bi - 1
               /\ Len(csvfile) = ExpectedRowCount(usable)
        /\ pc = "done" => Len(responses) = Len(Batches)

\* a run that skipped its first batch, took its header from the second and
\* went through a third usable batch with another header line
C4_Witness ==
    /\ pc = "done"
    /\ ~Usable(responses[1])
    /\ Usable(responses[2]) /\ Usable(responses[3])
    /\ LinesOf(responses[2])[7] /= LinesOf(responses[3])[7]
    /\ csvfile[1] = ExpectedHeader
    /\ Len(csvfile) = 3

=============================================================================
